---------------------------- MODULE Spec2Model ----------------------------
(***************************************************************************)
(* json_position: the path (array indices and object keys) that leads from *)
(* the root of a raw JSON text to the character at a given offset.         *)
(*                                                                         *)
(* A text is a sequence of characters (one-character strings).  Positions  *)
(* are zero-based as in the source: chars[i] of the source is At(chars, i).*)
(***************************************************************************)
EXTENDS Integers, Sequences, FiniteSets, TLC

VARIABLES
    text,       \* per call: the argument `text`, as `chars` (lib.rs:95)
    offset,     \* per call: the argument `offset`
    api,        \* per call: the entry point called, "path" or "dot_path"
    pc,         \* per call: "idle", "call", "scan", "dots", "done", "panicked"
    pos,        \* per frame: `pos` (lib.rs:89)
    path,       \* per frame: `path` (lib.rs:90)
    in_key,     \* per frame: `in_key` (lib.rs:91)
    current,    \* per frame: `current` (lib.rs:93); <<>> before the frame exists
    p,          \* per frame: `p` of dot_path (lib.rs:180)
    dotted,     \* per frame: `dotted` of dots (lib.rs:185)
    result      \* per call: the value returned to the caller

vars == <<text, offset, api, pc, pos, path, in_key, current, p, dotted, result>>

----------------------------------------------------------------------------
(* Bounds of the model.                                                    *)

\* Size of a generated document, in lexical units: a structural character,
\* a number, the quote pair of a string and each unit of a string body
\* (a plain character or an escape pair) count one each.
MaxSize == 7

\* Units in the body of one generated string.
MaxStr == 2

\* How far beyond the end of the text the offsets go.
MaxBeyond == 1

----------------------------------------------------------------------------
(* Characters and texts.                                                   *)

Min(a, b) == IF a < b THEN a ELSE b

At(chars, i) == chars[i + 1]

Digits == <<"0", "1", "2", "3", "4", "5", "6", "7", "8", "9">>

IsDigit(ch) == ch \in {"0", "1", "2", "3", "4", "5", "6", "7", "8", "9"}

IsSpace(ch) == ch = " "

\* The units a generated string body is made of: a plain character, the
\* structural characters the scan tells apart ('}' is matched by the same
\* code as ']'), an escaped quote and an escaped backslash.
StrUnits ==
    { <<"a">>, <<"[">>, <<"]">>, <<"{">>, <<",">>,
      <<"\\", "\"">>, <<"\\", "\\">> }

Quoted(b) == <<"\"">> \o b \o <<"\"">>

RECURSIVE BodiesOf(_)
\* string bodies of exactly n units
BodiesOf(n) ==
    IF n = 0 THEN { <<>> }
    ELSE { b \o u : b \in BodiesOf(n - 1), u \in StrUnits }

RECURSIVE ValuesOf(_), ElementsOf(_), MembersOf(_)
\* JSON values of size exactly n
ValuesOf(n) ==
    IF n < 1 THEN {}
    ELSE (IF n = 1 THEN { <<"1">> } ELSE {})
         \cup (IF n - 1 <= MaxStr THEN { Quoted(b) : b \in BodiesOf(n - 1) } ELSE {})
         \cup (IF n = 2 THEN { <<"[", "]">>, <<"{", "}">> } ELSE {})
         \cup { <<"[">> \o e \o <<"]">> : e \in ElementsOf(n - 2) }
         \cup { <<"{">> \o m \o <<"}">> : m \in MembersOf(n - 2) }

\* non-empty element lists of size exactly n
ElementsOf(n) ==
    IF n < 1 THEN {}
    ELSE ValuesOf(n)
         \cup UNION { { v \o <<",">> \o r : v \in ValuesOf(j), r \in ElementsOf(n - 1 - j) }
                      : j \in 1..(n - 2) }

\* one member, "key":value, of size exactly n
MemberOf(n) ==
    UNION { { Quoted(k) \o <<":">> \o v : k \in BodiesOf(j - 1), v \in ValuesOf(n - 1 - j) }
            : j \in 1..Min(MaxStr + 1, n - 2) }

\* non-empty member lists of size exactly n
MembersOf(n) ==
    IF n < 3 THEN {}
    ELSE MemberOf(n)
         \cup UNION { { m \o <<",">> \o r : m \in MemberOf(j), r \in MembersOf(n - 1 - j) }
                      : j \in 3..(n - 4) }

\* The generated documents: every JSON text of at most MaxSize units.
Generated == UNION { ValuesOf(n) : n \in 1..MaxSize }


\* Scenario 2 of the specification (lib.rs:75), with 1 for null:
\*   [1, 9, {"a": "b"}]
Scenario2 ==
    <<"[", "1", ",", " ", "9", ",", " ", "{", "\"", "a", "\"", ":", " ",
      "\"", "b", "\"", "}", "]">>

\* Scenario 5 of the specification:  {"a\"b": 1}
Scenario5 ==
    <<"{", "\"", "a", "\\", "\"", "b", "\"", ":", " ", "1", "}">>

\* The shape of the test's document (lib.rs:204), shortened:
\*   [9, {"f": "b", "g": [1, 1, 87, 4], "h": "x"}]
Scenario1 ==
    <<"[", "9", ",", " ", "{", "\"", "f", "\"", ":", " ", "\"", "b", "\"", ",", " ",
      "\"", "g", "\"", ":", " ", "[", "1", ",", " ", "1", ",", " ", "8", "7", ",",
      " ", "4", "]", ",", " ", "\"", "h", "\"", ":", " ", "\"", "x", "\"", "}", "]">>

\* An array of eleven elements, whose last index takes two decimal digits.
Eleven ==
    <<"[", "1", ",", "1", ",", "1", ",", "1", ",", "1", ",", "1", ",", "1", ",",
      "1", ",", "1", ",", "1", ",", "1", "]">>

\* An object whose first value is an empty object:  {"a":{},"b":1}
EmptyThenKey ==
    <<"{", "\"", "a", "\"", ":", "{", "}", ",", "\"", "b", "\"", ":", "1", "}">>

Scenarios == { Scenario1, Scenario2, Scenario5, Eleven, EmptyThenKey }

\* Scenario 4 of the specification, malformed:  {"a": }
Scenario4 == <<"{", "\"", "a", "\"", ":", " ", "}">>

Prefixes(t) == { SubSeq(t, 1, n) : n \in 0..(Len(t) - 1) }

Deletions(t) == { SubSeq(t, 1, n - 1) \o SubSeq(t, n + 1, Len(t)) : n \in 1..Len(t) }

\* Damaged texts: what is left of a smaller document after cutting its tail
\* or dropping one character (nearly all of it malformed).
Damaged ==
    UNION { Prefixes(t) \cup Deletions(t) : t \in UNION { ValuesOf(n) : n \in 1..(MaxSize - 2) } }

\* The texts a call is made on.
Texts == Generated \cup Scenarios \cup { Scenario4 } \cup Damaged

----------------------------------------------------------------------------
(* The validator, oxidized_json_checker::validate_str (lib.rs:87): a       *)
(* pushdown recogniser of the JSON grammar (RFC 8259) over the characters  *)
(* of the model.  It accepts any JSON value at the top level.              *)

Escapable == { "\"", "\\", "/", "b", "f", "n", "r", "t" }

VFail == [s |-> "fail", stk |-> <<>>, key |-> FALSE]

VPop(v, kind) ==
    IF Len(v.stk) > 0 /\ v.stk[Len(v.stk)] = kind
    THEN [v EXCEPT !.s = "after", !.stk = SubSeq(v.stk, 1, Len(v.stk) - 1)]
    ELSE VFail

\* a character where a value may begin
VValue(v, ch) ==
    CASE IsSpace(ch) -> v
      [] ch = "["    -> [v EXCEPT !.s = "arr0", !.stk = Append(v.stk, "A")]
      [] ch = "{"    -> [v EXCEPT !.s = "obj0", !.stk = Append(v.stk, "O")]
      [] ch = "\""   -> [v EXCEPT !.s = "str", !.key = FALSE]
      [] IsDigit(ch) /\ ch # "0" -> [v EXCEPT !.s = "num"]
      [] ch = "n"    -> [v EXCEPT !.s = "n1"]
      [] OTHER       -> VFail

\* a character after a complete value
VAfter(v, ch) ==
    CASE IsSpace(ch) -> [v EXCEPT !.s = "after"]
      [] ch = ","    -> IF Len(v.stk) = 0 THEN VFail
                        ELSE IF v.stk[Len(v.stk)] = "A"
                             THEN [v EXCEPT !.s = "value"]
                             ELSE [v EXCEPT !.s = "objk"]
      [] ch = "]"    -> VPop(v, "A")
      [] ch = "}"    -> VPop(v, "O")
      [] OTHER       -> VFail

VNext(v, ch) ==
    CASE v.s = "fail"  -> VFail
      [] v.s = "value" -> VValue(v, ch)
      [] v.s = "arr0"  -> IF ch = "]" THEN VPop(v, "A") ELSE VValue(v, ch)
      [] v.s = "obj0"  -> IF ch = "}" THEN VPop(v, "O")
                          ELSE IF IsSpace(ch) THEN v
                          ELSE IF ch = "\"" THEN [v EXCEPT !.s = "str", !.key = TRUE]
                          ELSE VFail
      [] v.s = "objk"  -> IF IsSpace(ch) THEN v
                          ELSE IF ch = "\"" THEN [v EXCEPT !.s = "str", !.key = TRUE]
                          ELSE VFail
      [] v.s = "str"   -> IF ch = "\"" THEN [v EXCEPT !.s = IF v.key THEN "colon" ELSE "after"]
                          ELSE IF ch = "\\" THEN [v EXCEPT !.s = "esc"]
                          ELSE v
      [] v.s = "esc"   -> IF ch \in Escapable THEN [v EXCEPT !.s = "str"] ELSE VFail
      [] v.s = "colon" -> IF IsSpace(ch) THEN v
                          ELSE IF ch = ":" THEN [v EXCEPT !.s = "value"]
                          ELSE VFail
      [] v.s = "num"   -> IF IsDigit(ch) THEN v ELSE VAfter(v, ch)
      [] v.s = "n1"    -> IF ch = "u" THEN [v EXCEPT !.s = "n2"] ELSE VFail
      [] v.s = "n2"    -> IF ch = "l" THEN [v EXCEPT !.s = "n3"] ELSE VFail
      [] v.s = "n3"    -> IF ch = "l" THEN [v EXCEPT !.s = "after"] ELSE VFail
      [] v.s = "after" -> VAfter(v, ch)

RECURSIVE VRun(_, _, _)
\* the position at which the recogniser fails, or -1 when it accepts
VRun(chars, i, v) ==
    IF v.s = "fail" THEN i - 1
    ELSE IF i = Len(chars)
         THEN IF v.s \in {"after", "num"} /\ Len(v.stk) = 0 THEN -1 ELSE i
         ELSE VRun(chars, i + 1, VNext(v, At(chars, i)))

Ok(v) == [tag |-> "Ok", val |-> v]

Err(e) == [tag |-> "Err", val |-> e]

\* validate_str(&text): Ok, or Err with the validator's diagnostic
validate_str(chars) ==
    LET at == VRun(chars, 0, [s |-> "value", stk |-> <<>>, key |-> FALSE])
    IN  IF at = -1 THEN Ok("valid") ELSE Err([error |-> "invalid", at |-> at])

Accepted(chars) == validate_str(chars).tag = "Ok"

----------------------------------------------------------------------------
(* Index, Current and the helpers of the scan.                             *)

\* Index::Array(i) and Index::Object(key)
Array(i) == [tag |-> "Array", i |-> i, key |-> <<>>]

Object(key) == [tag |-> "Object", i |-> 0, key |-> key]

\* Index::increment: only an Array index is advanced
increment(ix) == IF ix.tag = "Array" THEN [ix EXCEPT !.i = ix.i + 1] ELSE ix

\* the decimal digits of a usize
RECURSIVE to_string(_)
to_string(n) ==
    IF n < 10 THEN << Digits[n + 1] >>
    ELSE to_string(n \div 10) \o << Digits[(n % 10) + 1] >>

\* the text an Index is displayed as (the match of dots and of Display::fmt)
display(ix) == IF ix.tag = "Array" THEN to_string(ix.i) ELSE ix.key

\* Vec::pop: removes the last entry, and does nothing on an empty vector
pop(v) == IF Len(v) = 0 THEN v ELSE SubSeq(v, 1, Len(v) - 1)

\* Vec::last: the last entry, or "NoLast" for an empty vector
last(v) == IF Len(v) = 0 THEN "NoLast" ELSE v[Len(v)]

\* An index out of the bounds of a vector, or a usize below zero, aborts
\* the call: end_quote reports it as the position OutOfBounds.
OutOfBounds == -1

RECURSIVE end_quote(_, _)
\* end_quote(chars, start): the loop of lib.rs:51-60, from i
end_quote(chars, i) ==
    IF ~(i < Len(chars)) THEN i
    ELSE LET j == IF At(chars, i) = "\\" THEN i + 2 ELSE i
         IN  IF ~(j < Len(chars)) THEN OutOfBounds
             ELSE IF At(chars, j) = "\"" THEN j
             ELSE end_quote(chars, j + 1)

\* substring(str, start, end): the characters start .. end-1
substring(str, start, end) == SubSeq(str, start + 1, end)

\* The locals of one scan, and the scan aborted by a panic.
Frame0 == [pos |-> 0, path |-> <<>>, in_key |-> FALSE, current |-> <<"None">>,
           panic |-> FALSE]

Panic(s) == [s EXCEPT !.panic = TRUE]

\* the loop that also runs on the character at the offset
LoopCondInclusive(chars, off, s) == s.pos <= off /\ s.pos < Len(chars)

\* the condition of the while loop
LoopCond(chars, off, s) == s.pos < off /\ s.pos < Len(chars)

\* the arm of '"'
ArmQuote(chars, s) ==
    LET i == end_quote(chars, s.pos + 1)
    IN  IF i = OutOfBounds THEN Panic(s)
        ELSE LET key == substring(chars, s.pos + 1, i)
             IN  IF last(s.current) = "Object" /\ s.in_key
                 THEN [s EXCEPT !.path = Append(s.path, Object(key)),
                                !.in_key = FALSE,
                                !.pos = i]
                 ELSE s

\* the arm of '{'
ArmOpenBrace(s) ==
    [s EXCEPT !.current = Append(s.current, "Object"), !.in_key = TRUE]

\* the arm of '['
ArmOpenBracket(s) ==
    [s EXCEPT !.path = Append(s.path, Array(0)),
              !.current = Append(s.current, "Array")]

\* the arms of '}' and of ']'
ArmClose(s) ==
    [s EXCEPT !.path = pop(s.path), !.current = pop(s.current)]

\* the arm of ','
ArmComma(s) ==
    CASE last(s.current) = "Object" ->
            [s EXCEPT !.path = pop(s.path), !.in_key = TRUE]
      [] last(s.current) = "Array" ->
            IF Len(s.path) = 0 THEN Panic(s)
            ELSE [s EXCEPT !.path[Len(s.path)] = increment(s.path[Len(s.path)])]
      [] OTHER -> s

\* the match on chars[pos]
Arm(chars, s) ==
    LET ch == At(chars, s.pos)
    IN  CASE ch = "\"" -> ArmQuote(chars, s)
          [] ch = "{"  -> ArmOpenBrace(s)
          [] ch = "["  -> ArmOpenBracket(s)
          [] ch = "}"  -> ArmClose(s)
          [] ch = "]"  -> ArmClose(s)
          [] ch = ","  -> ArmComma(s)
          [] OTHER     -> s

\* an iteration that moves on by one whatever the arm did
AdvanceAlways(start_pos, s) ==
    IF s.panic THEN s ELSE [s EXCEPT !.pos = s.pos + 1]

\* the end of an iteration: a position the arm left alone moves on by one
Advance(start_pos, s) ==
    IF s.panic THEN s
    ELSE IF s.pos = start_pos THEN [s EXCEPT !.pos = s.pos + 1] ELSE s

\* one iteration of the loop
ScanStep(chars, s) == Advance(s.pos, Arm(chars, s))

\* the separator put after the segment instead of before it
DotsStepDotAfter(d, ix) == d \o display(ix) \o <<".">>

\* one more segment of dots
DotsStep(d, ix) == d \o <<".">> \o display(ix)

RECURSIVE DotsFrom(_, _, _)
DotsFrom(d, pth, k) ==
    IF k > Len(pth) THEN d ELSE DotsFrom(DotsStep(d, pth[k]), pth, k + 1)

\* dots(p)
dots(pth) == DotsFrom(<<"$">>, pth, 1)

----------------------------------------------------------------------------
(* A call run on its own, from entry to return.                            *)

RECURSIVE ScanFrom(_, _, _)
\* the loop of lib.rs:97-155
ScanFrom(chars, off, s) ==
    IF s.panic THEN s
    ELSE IF LoopCond(chars, off, s) THEN ScanFrom(chars, off, ScanStep(chars, s))
    ELSE s

\* a call that panicked returns nothing
Aborted == [tag |-> "Panic", val |-> <<>>]

\* path(text, offset)
PathResult(chars, off) ==
    LET r == validate_str(chars)
    IN  IF r.tag = "Err" THEN r
        ELSE LET s == ScanFrom(chars, off, Frame0)
             IN  IF s.panic THEN Aborted ELSE Ok(s.path)

\* dot_path(text, offset)
DotPathResult(chars, off) ==
    LET r == PathResult(chars, off)
    IN  IF r.tag = "Ok" THEN Ok(dots(r.val)) ELSE r

----------------------------------------------------------------------------
(* The calls.  A call of path or dot_path runs in a frame of its own: the  *)
(* locals of lib.rs:89-95 are created by the call that uses them.          *)

Calls == {1, 2}

\* one frame shared by all calls
FrameShared(c) == 1

Frame(c) == c

NoResult == [tag |-> "None", val |-> <<>>]

Locals(f) ==
    [pos |-> pos[f], path |-> path[f], in_key |-> in_key[f],
     current |-> current[f], panic |-> FALSE]

Store(f, s) ==
    /\ pos' = [pos EXCEPT ![f] = s.pos]
    /\ path' = [path EXCEPT ![f] = s.path]
    /\ in_key' = [in_key EXCEPT ![f] = s.in_key]
    /\ current' = [current EXCEPT ![f] = s.current]

\* an error of the validator that is dropped
PropagatesNothing(r) == FALSE

\* The `?` of path (lib.rs:87) on the validator's answer: TRUE when the
\* error is handed to the caller and the function goes no further.
Propagates(r) == r.tag = "Err"

\* What the entry point does with the value path returns (lib.rs:180-181):
\* path hands it to its caller, dot_path hands an error on unchanged and
\* renders a path.
Return(c, r) ==
    IF api[c] = "dot_path" /\ r.tag = "Ok"
    THEN /\ pc' = [pc EXCEPT ![c] = "dots"]
         /\ p' = [p EXCEPT ![Frame(c)] = r.val]
         /\ dotted' = [dotted EXCEPT ![Frame(c)] = <<"$">>]
         /\ UNCHANGED result
    ELSE /\ pc' = [pc EXCEPT ![c] = "done"]
         /\ result' = [result EXCEPT ![c] = r]
         /\ UNCHANGED <<p, dotted>>

\* lib.rs:87-95: the validator is asked first; its error ends the call,
\* its approval creates the locals of the scan.
Validate(c) ==
    /\ pc[c] = "call"
    /\ LET r == validate_str(text[c])
       IN  IF Propagates(r)
           THEN /\ Return(c, r)
                /\ UNCHANGED <<pos, path, in_key, current>>
           ELSE /\ pc' = [pc EXCEPT ![c] = "scan"]
                /\ Store(Frame(c), Frame0)
                /\ UNCHANGED <<p, dotted, result>>
    /\ UNCHANGED <<text, offset, api>>

\* One iteration of the loop of lib.rs:97-155 on the character ch.
Iterate(c, s) ==
    /\ IF s.panic
       THEN /\ pc' = [pc EXCEPT ![c] = "panicked"]
            /\ UNCHANGED <<pos, path, in_key, current>>
       ELSE /\ Store(Frame(c), s)
            /\ UNCHANGED pc
    /\ UNCHANGED <<text, offset, api, p, dotted, result>>

Looping(c) ==
    /\ pc[c] = "scan"
    /\ LoopCond(text[c], offset[c], Locals(Frame(c)))

Char(c) == At(text[c], pos[Frame(c)])

StepQuote(c) ==
    /\ Looping(c)
    /\ Char(c) = "\""
    /\ Iterate(c, Advance(pos[Frame(c)], ArmQuote(text[c], Locals(Frame(c)))))

StepOpenBrace(c) ==
    /\ Looping(c)
    /\ Char(c) = "{"
    /\ Iterate(c, Advance(pos[Frame(c)], ArmOpenBrace(Locals(Frame(c)))))

StepOpenBracket(c) ==
    /\ Looping(c)
    /\ Char(c) = "["
    /\ Iterate(c, Advance(pos[Frame(c)], ArmOpenBracket(Locals(Frame(c)))))

StepCloseBrace(c) ==
    /\ Looping(c)
    /\ Char(c) = "}"
    /\ Iterate(c, Advance(pos[Frame(c)], ArmClose(Locals(Frame(c)))))

StepCloseBracket(c) ==
    /\ Looping(c)
    /\ Char(c) = "]"
    /\ Iterate(c, Advance(pos[Frame(c)], ArmClose(Locals(Frame(c)))))

StepComma(c) ==
    /\ Looping(c)
    /\ Char(c) = ","
    /\ Iterate(c, Advance(pos[Frame(c)], ArmComma(Locals(Frame(c)))))

StepOther(c) ==
    /\ Looping(c)
    /\ Char(c) \notin {"\"", "{", "[", "}", "]", ","}
    /\ Iterate(c, Advance(pos[Frame(c)], Locals(Frame(c))))

\* lib.rs:157: the loop is over and path returns Ok(path)
ScanExit(c) ==
    /\ pc[c] = "scan"
    /\ ~LoopCond(text[c], offset[c], Locals(Frame(c)))
    /\ Return(c, Ok(path[Frame(c)]))
    /\ UNCHANGED <<text, offset, api, pos, path, in_key, current>>

\* lib.rs:187-193: one segment of the loop of dots
DotsSegment(c) ==
    /\ pc[c] = "dots"
    /\ Len(p[Frame(c)]) > 0
    /\ dotted' = [dotted EXCEPT ![Frame(c)] = DotsStep(@, Head(p[Frame(c)]))]
    /\ p' = [p EXCEPT ![Frame(c)] = Tail(@)]
    /\ UNCHANGED <<text, offset, api, pc, pos, path, in_key, current, result>>

\* lib.rs:195 and 181: dots returns dotted, dot_path returns Ok of it
DotsReturn(c) ==
    /\ pc[c] = "dots"
    /\ Len(p[Frame(c)]) = 0
    /\ pc' = [pc EXCEPT ![c] = "done"]
    /\ result' = [result EXCEPT ![c] = Ok(dotted[Frame(c)])]
    /\ UNCHANGED <<text, offset, api, pos, path, in_key, current, p, dotted>>

Step(c) ==
    \/ Validate(c)
    \/ StepQuote(c)
    \/ StepOpenBrace(c)
    \/ StepOpenBracket(c)
    \/ StepCloseBrace(c)
    \/ StepCloseBracket(c)
    \/ StepComma(c)
    \/ StepOther(c)
    \/ ScanExit(c)
    \/ DotsSegment(c)
    \/ DotsReturn(c)

Next == \E c \in Calls : Step(c)

Offsets(t) == 0..(Len(t) + MaxBeyond)

InitLocals ==
    /\ pos = [f \in Calls |-> 0]
    /\ path = [f \in Calls |-> <<>>]
    /\ in_key = [f \in Calls |-> FALSE]
    /\ current = [f \in Calls |-> <<>>]
    /\ p = [f \in Calls |-> <<>>]
    /\ dotted = [f \in Calls |-> <<>>]
    /\ result = [c \in Calls |-> NoResult]

\* One call, of either entry point, on any text and offset.
Init ==
    /\ \E t \in Texts : \E o \in Offsets(t) :
          /\ text = [c \in Calls |-> IF c = 1 THEN t ELSE <<>>]
          /\ offset = [c \in Calls |-> IF c = 1 THEN o ELSE 0]
    /\ \E a \in {"path", "dot_path"} : api = [c \in Calls |-> a]
    /\ pc = [c \in Calls |-> IF c = 1 THEN "call" ELSE "idle"]
    /\ InitLocals

Spec == Init /\ [][Next]_vars

----------------------------------------------------------------------------
(* The structure of a document, read off the JSON grammar: what the claims *)
(* compare the scan with.  A string is entered at its opening quote and    *)
(* left at its closing quote; a backslash hides the character after it;    *)
(* brackets, braces and commas count only outside strings.                 *)

RefInit == [mode |-> "out", stk |-> <<>>, iskey |-> FALSE, kstart |-> 0]

RefTop(r) == r.stk[Len(r.stk)]

RefStep(r, ch, i) ==
    CASE r.mode = "esc" -> [r EXCEPT !.mode = "str"]
      [] r.mode = "str" ->
            IF ch = "\\" THEN [r EXCEPT !.mode = "esc"]
            ELSE IF ch # "\"" THEN r
            ELSE IF r.iskey
                 THEN [r EXCEPT !.mode = "out",
                                !.stk[Len(r.stk)].await = FALSE,
                                !.stk[Len(r.stk)].key = i]
                 ELSE [r EXCEPT !.mode = "out"]
      [] OTHER ->
            CASE ch = "[" -> [r EXCEPT !.stk = Append(r.stk,
                                 [kind |-> "Array", n |-> 0, await |-> FALSE, key |-> 0, open |-> 0])]
              [] ch = "{" -> [r EXCEPT !.stk = Append(r.stk,
                                 [kind |-> "Object", n |-> 0, await |-> TRUE, key |-> 0, open |-> 0])]
              [] ch \in {"]", "}"} -> [r EXCEPT !.stk = SubSeq(r.stk, 1, Len(r.stk) - 1)]
              [] ch = "," ->
                    IF Len(r.stk) = 0 THEN r
                    ELSE IF RefTop(r).kind = "Array"
                         THEN [r EXCEPT !.stk[Len(r.stk)].n = @ + 1]
                         ELSE [r EXCEPT !.stk[Len(r.stk)].await = TRUE]
              [] ch = "\"" ->
                    IF Len(r.stk) > 0 /\ RefTop(r).kind = "Object" /\ RefTop(r).await
                    THEN [r EXCEPT !.mode = "str", !.iskey = TRUE,
                                   !.stk[Len(r.stk)].open = i]
                    ELSE [r EXCEPT !.mode = "str", !.iskey = FALSE]
              [] OTHER -> r

RECURSIVE RefAt(_, _)
\* the structure of the document before position n: its open containers,
\* each with the number of commas seen (n), whether its next key is awaited
\* and the positions of the quotes of its latest key
RefAt(chars, n) ==
    IF n = 0 THEN RefInit
    ELSE RefStep(RefAt(chars, n - 1), At(chars, n - 1), n - 1)

\* the number of containers open at position n
Depth(chars, n) == Len(RefAt(chars, Min(n, Len(chars))).stk)

\* the raw text of the latest key of an open object
RefKey(chars, fr) == SubSeq(chars, fr.open + 2, fr.key)

\* the segment of an open container
RefIndex(chars, fr) ==
    IF fr.kind = "Array" THEN Array(fr.n) ELSE Object(RefKey(chars, fr))

\* the root-first segments that lead to position n
RefPath(chars, n) ==
    LET r == RefAt(chars, n)
    IN  [k \in 1..Len(r.stk) |-> RefIndex(chars, r.stk[k])]

\* position n is the first character of a value
ValueStart(chars, n) ==
    /\ n < Len(chars)
    /\ LET r == RefAt(chars, n)
           ch == At(chars, n)
       IN  /\ r.mode = "out"
           /\ \/ ch \in {"[", "{", "n"}
              \/ IsDigit(ch) /\ (n = 0 \/ ~IsDigit(At(chars, n - 1)))
              \/ /\ ch = "\""
                 /\ ~(Len(r.stk) > 0 /\ RefTop(r).kind = "Object" /\ RefTop(r).await)

\* position n is the opening quote of a key
KeyStart(chars, n) ==
    /\ n < Len(chars)
    /\ At(chars, n) = "\""
    /\ LET r == RefAt(chars, n)
       IN  r.mode = "out" /\ Len(r.stk) > 0 /\ RefTop(r).kind = "Object" /\ RefTop(r).await

RECURSIVE ClosingQuote(_, _)
\* the unescaped quote that closes the string whose body begins at i
ClosingQuote(chars, i) ==
    IF At(chars, i) = "\\" THEN ClosingQuote(chars, i + 2)
    ELSE IF At(chars, i) = "\"" THEN i
    ELSE ClosingQuote(chars, i + 1)

\* the raw text of the key whose opening quote is at position n
RawKey(chars, n) == SubSeq(chars, n + 2, ClosingQuote(chars, n + 1))

\* Two calls at once, each of either entry point, on a few texts: arrays,
\* objects, a malformed text and documents on which the scan goes wrong.
ConcTexts ==
    { <<"[", "1", ",", "1", "]">>,
      <<"{", "\"", "a", "\"", ":", "1", "}">>,
      <<"[", "{", "}", ",", "1", "]">>,
      <<"[", "\"", "]", "\"", "]">>,
      Scenario4 }

InitConc ==
    /\ text \in [Calls -> ConcTexts]
    /\ \E o1 \in Offsets(text[1]) : \E o2 \in Offsets(text[2]) :
          offset = [c \in Calls |-> IF c = 1 THEN o1 ELSE o2]
    /\ api \in [Calls -> {"path", "dot_path"}]
    /\ pc = [c \in Calls |-> "call"]
    /\ InitLocals

SpecConc == InitConc /\ [][Next]_vars

----------------------------------------------------------------------------
(* The claims.                                                             *)

Returned(c) == pc[c] = "done"

Finished(c) == pc[c] \in {"done", "panicked"}

Outcome(c) == IF pc[c] = "panicked" THEN Aborted ELSE result[c]

\* C1: on an accepted document, at the offset of the first character of a
\* value, path returns the root-first segments that lead to that value: the
\* index of the element for each enclosing array, the key of the member for
\* each enclosing object.
C1_PathLeadsToValue ==
    \A c \in Calls :
        (Returned(c) /\ api[c] = "path" /\ Accepted(text[c])
            /\ ValueStart(text[c], offset[c]))
        => result[c] = Ok(RefPath(text[c], offset[c]))

\* C2: on an accepted document no call aborts: every index into the
\* characters and into the path is within bounds.
C2_NeverAborts ==
    \A c \in Calls : Accepted(text[c]) => pc[c] # "panicked"

\* C3: on an accepted document, an offset at or beyond the end of the text
\* gives the empty path, and no error.
C3_BeyondEndEmpty ==
    \A c \in Calls :
        (Returned(c) /\ api[c] = "path" /\ Accepted(text[c])
            /\ offset[c] >= Len(text[c]))
        => result[c] = Ok(<<>>)

\* C4: a text the validator rejects makes both entry points return the
\* validator's error as it is, and no step of the scan runs (its locals are
\* never created); a text the validator accepts never gives an error.
C4_ValidatorDecides ==
    \A c \in Calls :
        LET v == validate_str(text[c])
        IN  IF v.tag = "Err"
            THEN /\ pc[c] \in {"idle", "call", "done"}
                 /\ current[Frame(c)] = <<>> /\ pos[Frame(c)] = 0 /\ path[Frame(c)] = <<>>
                 /\ Returned(c) => result[c] = v
            ELSE result[c].tag # "Err"

C4_Witness ==
    \E c \in Calls :
        /\ Returned(c) /\ api[c] = "dot_path" /\ text[c] = Scenario4 /\ offset[c] > 0
        /\ result[c].tag = "Err"

DigitValue(ch) == CHOOSE d \in 0..9 : Digits[d + 1] = ch

RECURSIVE NumeralValue(_)
NumeralValue(ds) ==
    IF Len(ds) = 0 THEN 0
    ELSE 10 * NumeralValue(SubSeq(ds, 1, Len(ds) - 1)) + DigitValue(ds[Len(ds)])

\* ds is the decimal numeral of n
IsDecimalOf(ds, n) ==
    /\ Len(ds) >= 1
    /\ \A k \in 1..Len(ds) : IsDigit(ds[k])
    /\ Len(ds) > 1 => ds[1] # "0"
    /\ NumeralValue(ds) = n

IsSegmentOf(seg, ix) ==
    IF ix.tag = "Object" THEN seg = ix.key ELSE IsDecimalOf(seg, ix.i)

RECURSIVE IsRendering(_, _)
\* d is "$" followed, for each segment of pth in order, by "." and the segment
IsRendering(d, pth) ==
    IF Len(pth) = 0 THEN d = <<"$">>
    ELSE \E n \in 0..(Len(d) - 2) :
            /\ d[Len(d) - n] = "."
            /\ IsSegmentOf(SubSeq(d, Len(d) - n + 1, Len(d)), pth[Len(pth)])
            /\ IsRendering(SubSeq(d, 1, Len(d) - n - 1), SubSeq(pth, 1, Len(pth) - 1))

\* C5: on an accepted document dot_path returns the rendering of what path
\* returns: "$", then "." and the segment for each Index in order (the
\* decimal numeral of an Array, the raw key of an Object); it begins with
\* "$" and is exactly "$" for the empty path.
C5_DotPathRendersPath ==
    \A c \in Calls :
        (Returned(c) /\ api[c] = "dot_path" /\ Accepted(text[c])) =>
            LET r == PathResult(text[c], offset[c])
            IN  /\ r.tag = "Ok" /\ result[c].tag = "Ok"
                /\ IsRendering(result[c].val, r.val)
                /\ Head(result[c].val) = "$"
                /\ Len(r.val) = 0 => result[c].val = <<"$">>

C5_Witness ==
    \E c \in Calls :
        /\ Returned(c) /\ api[c] = "dot_path" /\ text[c] = Eleven
        /\ result[c] = Ok(<<"$", ".", "1", "0">>)

\* C6: when the scan consumes a key, the Object segment it pushes is the
\* raw text between the key's opening quote and the unescaped quote that
\* closes it, whatever escapes the key holds.
C6_KeyIsRawText ==
    [][\A c \in Calls :
          (/\ pc[c] = "scan" /\ Accepted(text[c])
           /\ KeyStart(text[c], pos[Frame(c)])
           /\ Len(path'[Frame(c)]) = Len(path[Frame(c)]) + 1)
          => /\ path'[Frame(c)] =
                   Append(path[Frame(c)], Object(RawKey(text[c], pos[Frame(c)])))
             /\ pos'[Frame(c)] = ClosingQuote(text[c], pos[Frame(c)] + 1)]_vars

\* C7: on an accepted document the path returned is no longer than the
\* number of containers open at the offset.
C7_PathWithinDepth ==
    \A c \in Calls :
        (Returned(c) /\ api[c] = "path" /\ Accepted(text[c]))
        => Len(result[c].val) <= Depth(text[c], offset[c])

\* C8: the scan state belongs to its call: however the steps of two calls
\* interleave, each call ends as it does when run alone, and calls with the
\* same entry point, text and offset end alike.
C8_CallsIndependent ==
    /\ \A c \in Calls :
          Finished(c) =>
              Outcome(c) = IF api[c] = "path" THEN PathResult(text[c], offset[c])
                           ELSE DotPathResult(text[c], offset[c])
    /\ \A c, d \in Calls :
          (/\ Finished(c) /\ Finished(d)
           /\ api[c] = api[d] /\ text[c] = text[d] /\ offset[c] = offset[d])
          => Outcome(c) = Outcome(d)

C8_Witness ==
    /\ \A c \in Calls : Returned(c) /\ api[c] = "path"
    /\ text[1] = <<"{", "\"", "a", "\"", ":", "1", "}">> /\ offset[1] = 6
    /\ text[2] = <<"[", "1", ",", "1", "]">> /\ offset[2] = 3
    /\ result[1] = Ok(<<Object(<<"a">>)>>)
    /\ result[2] = Ok(<<Array(1)>>)

\* C9: after every scan step on an accepted document the context stack
\* holds the None sentinel at its base and one entry for each container
\* open at the scan position.
C9_ContextDepth ==
    \A c \in Calls :
        (pc[c] = "scan" /\ Accepted(text[c])) =>
            /\ Len(current[Frame(c)]) = 1 + Depth(text[c], pos[Frame(c)])
            /\ current[Frame(c)][1] = "None"

\* C10: after every scan step on an accepted document the path holds one
\* Index for each container open at the scan position, pushed when the
\* container opens and removed when it closes.
C10_PathLengthIsDepth ==
    \A c \in Calls :
        (pc[c] = "scan" /\ Accepted(text[c])) =>
            Len(path[Frame(c)]) = Depth(text[c], pos[Frame(c)])

\* C11: after every scan step on an accepted document, the Array Index of
\* every open array holds the number of commas of that array seen so far
\* (0 when it opens); a comma in Array context adds one to the entry of the
\* innermost open array and to no other.
C11_ArrayIndexCountsCommas ==
    \A c \in Calls :
        (pc[c] = "scan" /\ Accepted(text[c])) =>
            LET r == RefAt(text[c], pos[Frame(c)])
            IN  \A k \in 1..Len(r.stk) :
                    r.stk[k].kind = "Array" =>
                        /\ k <= Len(path[Frame(c)])
                        /\ path[Frame(c)][k] = Array(r.stk[k].n)

\* the scan position is the closing quote of the key of the innermost object
AtKeyClose(chars, n, r) ==
    /\ r.mode = "str" /\ r.iskey
    /\ n < Len(chars) /\ At(chars, n) = "\""

\* C12: after every scan step on an accepted document, the Object Index of
\* every open object holds the latest completed key of that object, and the
\* object has no entry in the path from its '{' or one of its commas until
\* the closing quote of the next key is reached.
C12_ObjectIndexIsLatestKey ==
    \A c \in Calls :
        (pc[c] = "scan" /\ Accepted(text[c])) =>
            LET n == pos[Frame(c)]
                r == RefAt(text[c], n)
                pth == path[Frame(c)]
            IN  \A k \in 1..Len(r.stk) :
                    r.stk[k].kind = "Object" =>
                        IF ~r.stk[k].await
                        THEN k <= Len(pth) /\ pth[k] = Object(RefKey(text[c], r.stk[k]))
                        ELSE IF r.mode = "out"
                        THEN Len(pth) = k - 1
                        ELSE AtKeyClose(text[c], n, r) =>
                                /\ k <= Len(pth)
                                /\ pth[k] = Object(SubSeq(text[c], r.stk[k].open + 2, n))

\* C13: on an accepted document, whenever the '}' or ']' that closes a
\* container is processed, the path is not empty, the top of the context
\* stack is the container being closed, and the last entry of the path (the
\* one removed) is the entry of that container, not of an enclosing one.
C13_CloseRemovesOwnEntry ==
    \A c \in Calls :
        (/\ Looping(c) /\ Char(c) \in {"}", "]"}
         /\ Accepted(text[c])
         /\ RefAt(text[c], pos[Frame(c)]).mode = "out")
        => LET r == RefAt(text[c], pos[Frame(c)])
           IN  /\ Len(path[Frame(c)]) > 0
               /\ last(current[Frame(c)]) = RefTop(r).kind
               /\ Len(path[Frame(c)]) = Len(r.stk)

\* C14: after every scan step on an accepted document, in_key is TRUE
\* exactly when the next quoted string the scan meets is a key: after '{'
\* and after a comma directly inside an object, and at no other time, an
\* empty object just closed included.
C14_InKeyMeansKeyNext ==
    \A c \in Calls :
        (pc[c] = "scan" /\ Accepted(text[c])) =>
            LET r == RefAt(text[c], pos[Frame(c)])
            IN  in_key[Frame(c)] =
                   (/\ r.mode = "out"
                    /\ Len(r.stk) > 0
                    /\ RefTop(r).kind = "Object"
                    /\ RefTop(r).await)

\* position n holds a structural delimiter: a bracket, a brace or a comma
\* outside every string, or the opening quote of a key
OnDelimiter(chars, n) ==
    /\ n < Len(chars)
    /\ \/ /\ At(chars, n) \in {"{", "[", "}", "]", ","}
          /\ RefAt(chars, n).mode = "out"
       \/ KeyStart(chars, n)

\* the scan of call c is over and path has its Ok value
Exited(c) == pc[c] = "dots" \/ (pc[c] = "done" /\ result[c].tag = "Ok")

\* C15 as stated: for an offset on a structural delimiter the event at the
\* offset itself is reflected in the result, that is, path returns what it
\* returns once the character at the offset has been processed.
C15_EventAtOffsetReflected ==
    \A c \in Calls :
        (/\ Returned(c) /\ api[c] = "path" /\ result[c].tag = "Ok"
         /\ OnDelimiter(text[c], offset[c]))
        => result[c] = PathResult(text[c], offset[c] + 1)

\* C15, amended: for an offset on a structural delimiter the character at
\* the offset is never the character an iteration of the loop works on:
\* every iteration, whether it changes the locals or aborts, begins at a
\* position strictly before the offset, and what path returns is the path
\* those iterations left.  The event at the offset is not reflected.
C15_EventAtOffsetNotScanned ==
    [][\A c \in Calls :
          (pc[c] = "scan" /\ OnDelimiter(text[c], offset[c])) =>
              /\ (\/ pos'[Frame(c)] # pos[Frame(c)]
                  \/ path'[Frame(c)] # path[Frame(c)]
                  \/ current'[Frame(c)] # current[Frame(c)]
                  \/ in_key'[Frame(c)] # in_key[Frame(c)]
                  \/ pc'[c] = "panicked")
                 => pos[Frame(c)] < offset[c]
              /\ pc'[c] = "done" => result'[c] = Ok(path[Frame(c)])
              /\ pc'[c] = "dots" => p'[Frame(c)] = path[Frame(c)]]_vars

\* path has scanned up to an offset on a delimiter inside a container and
\* returned, and its result is not the one that processing the delimiter
\* gives
C15_Witness ==
    \E c \in Calls :
        /\ Returned(c) /\ api[c] = "path" /\ result[c].tag = "Ok"
        /\ OnDelimiter(text[c], offset[c])
        /\ pos[Frame(c)] = offset[c]
        /\ Len(result[c].val) > 0
        /\ result[c] # PathResult(text[c], offset[c] + 1)

\* C16 as stated: when the loop exits the scan position is min(O, length).
C16_StopsExactlyAtOffset ==
    \A c \in Calls :
        Exited(c) => pos[Frame(c)] = Min(offset[c], Len(text[c]))

\* C16, amended: when the loop exits the scan position is at least
\* min(O, length) and less than or equal to the length.  It is greater than
\* min(O, length) only when the last iteration consumed a key whose opening
\* quote lies before O: then the position is the one end_quote returned (a
\* quote, or the end of the text), the last Index of the path is that key
\* (the characters from after its opening quote up to that position),
\* in_key is false, and the characters of the key at positions O and after
\* are in the result.
C16_StopsAtOffsetOrKeyEnd ==
    \A c \in Calls :
        Exited(c) =>
            LET f == Frame(c)
                m == Min(offset[c], Len(text[c]))
            IN  \/ pos[f] = m
                \/ /\ pos[f] > m
                   /\ pos[f] <= Len(text[c])
                   /\ pos[f] < Len(text[c]) => At(text[c], pos[f]) = "\""
                   /\ ~in_key[f]
                   /\ Len(path[f]) > 0
                   /\ path[f][Len(path[f])].tag = "Object"
                   /\ LET key == path[f][Len(path[f])].key
                          q == pos[f] - Len(key) - 1
                      IN  /\ q >= 0 /\ q < offset[c]
                          /\ At(text[c], q) = "\""
                          /\ key = SubSeq(text[c], q + 2, pos[f])

\* the loop has exited past the offset
C16_Witness ==
    \E c \in Calls :
        /\ Exited(c) /\ api[c] = "path"
        /\ pos[Frame(c)] > offset[c]


\* C17: the scan position strictly increases on every iteration of the
\* loop: an iteration that begins on the opening quote of a key moves it to
\* the index of that key's closing quote, every other iteration moves it on
\* by exactly one character.
C17_PositionAdvances ==
    [][\A c \in Calls :
          (pc[c] = "scan" /\ pc'[c] = "scan") =>
              LET a == pos[Frame(c)]
                  b == pos'[Frame(c)]
              IN  /\ b > a
                  /\ IF KeyStart(text[c], a)
                     THEN b = ClosingQuote(text[c], a + 1)
                     ELSE b = a + 1]_vars

\* the document with every character inside a string value replaced by the
\* letter a: the quotes of the value, the keys and everything outside
\* strings stay, and so does every position
Neutral(chars) ==
    [k \in 1..Len(chars) |->
        LET r == RefAt(chars, k - 1)
        IN  IF /\ r.mode \in {"str", "esc"}
               /\ ~r.iskey
               /\ ~(r.mode = "str" /\ chars[k] = "\"")
            THEN "a"
            ELSE chars[k]]

\* C18: the result does not depend on the contents of string values: on an
\* accepted document path returns, at every offset, what it returns on the
\* document that differs from it only in the characters inside its string
\* values (same lengths, same structure).
C18_StringValuesIgnored ==
    \A c \in Calls :
        (Returned(c) /\ api[c] = "path" /\ result[c].tag = "Ok") =>
            result[c] = PathResult(Neutral(text[c]), offset[c])

============================================================================
